---- MODULE Spec2Model ----
(***************************************************************************)
(* Model of overxrpt_analyser: the classification of one report row        *)
(* (Row.__post_init__, Row.analyse and the helpers they call), the         *)
(* threshold lookup (Spreadsheet.load_df, Spreadsheet.get_levels) and the  *)
(* order in which LandauerTask.run calls them.                             *)
(*                                                                         *)
(* Every str attribute that holds a number (dose, level, urgentLevel, a    *)
(* spreadsheet cell) is modelled by the number float() parses it to, a     *)
(* natural number of dose units; the values that are not numbers are the   *)
(* negative codes below.  The pandas calls are modelled as pandas 2 runs   *)
(* them (Index & Index is the element-wise and).                           *)
(***************************************************************************)
EXTENDS Integers, Sequences, FiniteSets, TLC

\* ------------------------------------------------------------------ bounds
\* doses of report rows and numeric spreadsheet cells range over 0..MaxDose
MaxDose == 2
\* longest history (Row.past_notifs) explored
MaxHist == 2
\* most level columns of a threshold table explored by SpecLevels
MaxCols == 2

\* most rows of the current report explored by SpecReport
MaxRows == 3
\* most files next to the chosen report explored by SpecHistory
MaxFiles == 2

\* ------------------------------------------------------------------ values
\* a blank spreadsheet cell: read_excel(dtype=str) leaves it float('nan')
NAN == -1
\* a cell holding text that float() rejects, with neither "@" nor "DEFAULT"
TXT == -2
\* the dose string "M" of a report row
M == -3
\* an attribute that has not been set on the object
UNSET == -4
\* a cell holding text that contains "@"
EMAIL == -5
\* a cell holding text that contains "DEFAULT" (any case)
DEFAULT == -6
\* what Series.__getitem__ returns when several columns carry the label
SERIES == -7

\* float(v) returns (a number or nan) instead of raising
FloatOK(v) == v >= 0 \/ v = NAN

\* float(a) >= float(b): every comparison with nan is False
FloatGE(a, b) == a >= 0 /\ b >= 0 /\ a >= b

\* isinstance(v, str): every cell but a blank one, which is a float nan
IsStr(v) == v # NAN /\ v # SERIES

\* ------------------------------------------------------------------ dates
Date(y, m, d) == [year |-> y, month |-> m, day |-> d]

\* a period label; two labels are the same string iff the records are equal
\*   "%B %Y"        -> "March 2024"      (n is the month)
\*   "Q quarter"    -> "first quarter of 2024" (n is the quarter)
\*   "%Y-%m"        -> "2024-03"         (n is the month)
Period(f, n, y) == [fmt |-> f, n |-> n, year |-> y]

NoPeriod == Period("", 0, 0)

month2quarter_mapping ==
    (<<1, 3>> :> 1) @@ (<<4, 6>> :> 2) @@ (<<7, 9>> :> 3) @@ (<<10, 12>> :> 4)

\* gtd_monthly taking the month and the year from the end date
gtd_monthly_EndDate(r) ==
    [ok |-> TRUE, period |-> Period("%B %Y", r.eDate.month, r.eDate.year),
     period_type |-> "monthly"]

gtd_monthly(r) ==
    [ok |-> TRUE, period |-> Period("%B %Y", r.bDate.month, r.bDate.year),
     period_type |-> "monthly"]

\* gtd_quarterly naming the quarter the begin month lies in, whatever the
\* end month
gtd_quarterly_ByBegin(r) ==
    [ok |-> TRUE,
     period |-> Period("Q quarter", ((r.bDate.month - 1) \div 3) + 1, r.eDate.year),
     period_type |-> "quarterly"]

gtd_quarterly(r) ==
    LET key == <<r.bDate.month, r.eDate.month>> IN
    IF key \in DOMAIN month2quarter_mapping
    THEN [ok |-> TRUE,
          period |-> Period("Q quarter", month2quarter_mapping[key], r.eDate.year),
          period_type |-> "quarterly"]
    ELSE [ok |-> FALSE, period |-> NoPeriod, period_type |-> ""]

gtd_ytd(r) ==
    [ok |-> TRUE, period |-> Period("%Y-%m", r.bDate.month, r.bDate.year),
     period_type |-> "YTD"]

freq2method_mapping ==
    ("1MO" :> "gtd_monthly") @@ ("3MO" :> "gtd_quarterly") @@ ("" :> "gtd_ytd")

\* get_temporal_data treating every unknown frequency as year to date
get_temporal_data_DefaultYtd(r) ==
    CASE r.freq = "1MO" -> gtd_monthly(r)
      [] r.freq = "3MO" -> gtd_quarterly(r)
      [] OTHER -> gtd_ytd(r)

get_temporal_data(r) ==
    IF r.freq \notin DOMAIN freq2method_mapping
    THEN [ok |-> FALSE, period |-> NoPeriod, period_type |-> ""]
    ELSE CASE freq2method_mapping[r.freq] = "gtd_monthly" -> gtd_monthly(r)
           [] freq2method_mapping[r.freq] = "gtd_quarterly" -> gtd_quarterly(r)
           [] OTHER -> gtd_ytd(r)

\* ------------------------------------------------------------------ labels
\* A column label or a search candidate is a sequence of tokens: a word (a
\* maximal run of word characters, as written), " " (one non-word character)
\* or one of the parentheses "(" and ")".
Upper(w) ==
    CASE w = "dde" -> "DDE"
      [] w = "Whole" -> "WHOLE"
      [] w = "Body" -> "BODY"
      [] w = "collar" -> "COLLAR"
      [] w = "Collar" -> "COLLAR"
      [] w = "chest" -> "CHEST"
      [] w = "lens" -> "LENS"
      [] w = "Lenses" -> "LENSES"
      [] w = "Extremity" -> "EXTREMITY"
      [] w = "Monthly" -> "MONTHLY"
      [] w = "Quarterly" -> "QUARTERLY"
      [] w = "Annual" -> "ANNUAL"
      [] w = "Wear" -> "WEAR"
      [] w = "Period" -> "PERIOD"
      [] w = "Urgent" -> "URGENT"
      [] w = "Contact" -> "CONTACT"
      [] OTHER -> w

\* the tokens of a candidate string of the hierarchies
Tokens(s) ==
    CASE s = "WHOLE BODY" -> <<"WHOLE", " ", "BODY">>
      [] s = "WEAR PERIOD" -> <<"WEAR", " ", "PERIOD">>
      [] s = "other whole body" -> <<"other", " ", "whole", " ", "body">>
      [] s = "left finger" -> <<"left", " ", "finger">>
      [] s = "right finger" -> <<"right", " ", "finger">>
      [] OTHER -> <<s>>

IsParen(t) == t = "(" \/ t = ")"

\* re.sub(r"[()]", "", string)
StripParens(string) == SelectSeq(string, LAMBDA t : ~IsParen(t))

\* a search without the word boundaries, so that a word is found inside a
\* longer one
MatchAt_Within(sub, str, i) ==
    /\ i + Len(sub) - 1 <= Len(str)
    /\ \A k \in 1..Len(sub) :
          \/ Upper(str[i + k - 1]) = Upper(sub[k])
          \/ (Upper(sub[k]) = "LENS" /\ Upper(str[i + k - 1]) = "LENSES")

\* re.search(rf"\b{re.escape(substring)}\b", string, re.IGNORECASE) at offset i
MatchAt(sub, str, i) ==
    /\ i + Len(sub) - 1 <= Len(str)
    /\ \A k \in 1..Len(sub) : Upper(str[i + k - 1]) = Upper(sub[k])
    /\ (i = 1 \/ str[i - 1] = " ")
    /\ (i + Len(sub) - 1 = Len(str) \/ str[i + Len(sub)] = " ")

check_substring_in_string(substring, string) ==
    LET str == StripParens(string)
        sub == Tokens(substring)
    IN \E i \in 1..Len(str) : MatchAt(sub, str, i)

\* ------------------------------------------------------------------ mappers
\* config/badge_groupings.json, in the order of its keys
badge_groupings ==
    [wholeBody |-> {"collar", "other whole body", "chest", "waist"},
     extremity |-> {"left finger", "right finger"},
     lens |-> {"lens"}]

hier_Excel_wb == <<"DDE", "WHOLE BODY">>
hier_Excel_lens == <<"LDE", "LENS", "EYES">>
hier_Excel_extrem == <<"EXTREMITY">>

\* BadgeMapper.get_dose_column; ok = FALSE is 'Badge type not implemented!'
get_dose_column(badge) ==
    IF badge \in badge_groupings.wholeBody THEN [ok |-> TRUE, col |-> "Whole Body"]
    ELSE IF badge \in badge_groupings.extremity
         THEN [ok |-> TRUE, col |-> "Total Extremity"]
    ELSE IF badge \in badge_groupings.lens THEN [ok |-> TRUE, col |-> "Lens"]
    ELSE [ok |-> FALSE, col |-> ""]

\* get_Excel_Hierarchy without the badge's own label for whole-body badges
Badge_get_Excel_Hierarchy_NoOwnLabel(badge) ==
    IF badge \in badge_groupings.wholeBody
    THEN [ok |-> TRUE, hierarchy |-> hier_Excel_wb]
    ELSE IF badge \in badge_groupings.extremity
         THEN [ok |-> TRUE, hierarchy |-> hier_Excel_extrem]
    ELSE IF badge \in badge_groupings.lens
         THEN [ok |-> TRUE, hierarchy |-> hier_Excel_lens]
    ELSE [ok |-> FALSE, hierarchy |-> <<>>]

\* BadgeMapper.get_Excel_Hierarchy; ok = FALSE is 'Badge type not implemented!'
Badge_get_Excel_Hierarchy(badge) ==
    IF badge \in badge_groupings.wholeBody
    THEN [ok |-> TRUE, hierarchy |-> <<badge>> \o hier_Excel_wb]
    ELSE IF badge \in badge_groupings.extremity
         THEN [ok |-> TRUE, hierarchy |-> hier_Excel_extrem]
    ELSE IF badge \in badge_groupings.lens
         THEN [ok |-> TRUE, hierarchy |-> hier_Excel_lens]
    ELSE [ok |-> FALSE, hierarchy |-> <<>>]

period_type_to_hierarchy_mapping ==
    ("monthly" :> <<"MONTHLY", "WEAR PERIOD">>)
    @@ ("quarterly" :> <<"QUARTERLY", "WEAR PERIOD">>)
    @@ ("YTD" :> <<"ANNUAL">>)

\* TemporalMapper.get_Excel_Hierarchy; ok = FALSE is the KeyError of the dict
Temporal_get_Excel_Hierarchy(period_type) ==
    IF period_type \in DOMAIN period_type_to_hierarchy_mapping
    THEN [ok |-> TRUE, hierarchy |-> period_type_to_hierarchy_mapping[period_type]]
    ELSE [ok |-> FALSE, hierarchy |-> <<>>]

\* ------------------------------------------------------------------ get_levels
Col(o, i) == [outer |-> o, inner |-> i]

Raise(e) == [status |-> "raise", err |-> e, level |-> UNSET, urgentLevel |-> UNSET]

Return(l, u) == [status |-> "ok", err |-> "", level |-> l, urgentLevel |-> u]

\* the positions where bool_mask is True for the pair (badgeTest, period_typeTest)
bool_mask(columns, badgeTest, period_typeTest) ==
    {i \in 1..Len(columns) :
        /\ check_substring_in_string(badgeTest, columns[i].outer)
        /\ check_substring_in_string(period_typeTest, columns[i].inner)}

\* the nested loops with the period hierarchy as the outer loop
ProbedPair_PeriodOuter(hierarchyBadge, hierarchyTemporal, k) ==
    <<hierarchyBadge[((k - 1) % Len(hierarchyBadge)) + 1],
      hierarchyTemporal[((k - 1) \div Len(hierarchyBadge)) + 1]>>

\* the nested loops probing only the first candidate of the period hierarchy
ProbedPair_FirstPeriodOnly(hierarchyBadge, hierarchyTemporal, k) ==
    <<hierarchyBadge[((k - 1) \div Len(hierarchyTemporal)) + 1],
      hierarchyTemporal[1]>>

\* the k-th pair probed by the nested loops: badge outer, period inner
ProbedPair(hierarchyBadge, hierarchyTemporal, k) ==
    <<hierarchyBadge[((k - 1) \div Len(hierarchyTemporal)) + 1],
      hierarchyTemporal[((k - 1) % Len(hierarchyTemporal)) + 1]>>

\* bool_mask.get_loc(True): the position when True occurs once, otherwise a
\* slice or a boolean array, so that df.columns[...] is a MultiIndex
get_loc_True(mask) ==
    IF Cardinality(mask) = 1
    THEN [unique |-> TRUE, at |-> CHOOSE i \in mask : TRUE]
    ELSE [unique |-> FALSE, at |-> 0]

\* the lookup that takes the first Urgent column of the table
UrgentOf_FirstUrgent(columns, row, outer) ==
    LET U == {i \in 1..Len(columns) : columns[i].inner = <<"Urgent">>}
    IN IF U = {} THEN [ok |-> FALSE, value |-> UNSET]
       ELSE [ok |-> TRUE, value |-> row[CHOOSE i \in U : \A j \in U : i <= j]]

\* cls.row[outer, "Urgent"]
UrgentOf(columns, row, outer) ==
    LET U == {i \in 1..Len(columns) :
                 columns[i].outer = outer /\ columns[i].inner = <<"Urgent">>}
    IN IF U = {} THEN [ok |-> FALSE, value |-> UNSET]
       ELSE IF Cardinality(U) = 1
            THEN [ok |-> TRUE, value |-> row[CHOOSE i \in U : TRUE]]
       ELSE [ok |-> TRUE, value |-> SERIES]

get_levels(columns, row, badge, period_type) ==
    LET hb == Badge_get_Excel_Hierarchy(badge)
        ht == Temporal_get_Excel_Hierarchy(period_type)
    IN
    IF ~hb.ok THEN Raise("Badge type not implemented!")
    ELSE IF ~ht.ok THEN Raise("KeyError")
    ELSE
    LET hierarchyBadge == hb.hierarchy
        hierarchyTemporal == ht.hierarchy
        n == Len(hierarchyBadge) * Len(hierarchyTemporal)
        Hit(k) == LET p == ProbedPair(hierarchyBadge, hierarchyTemporal, k)
                  IN bool_mask(columns, p[1], p[2])
        hits == {k \in 1..n : Hit(k) # {}}
    IN
    IF hits = {}
    THEN Raise("Badge type and period type not found in spreadsheet!")
    ELSE
    LET first == CHOOSE k \in hits : \A j \in hits : k <= j
        loc == get_loc_True(Hit(first))
    IN
    \* several True: foundCol is a MultiIndex, foundCol[0] a whole column label,
    \* and cls.row[foundCol[0], "Urgent"] is a KeyError
    IF ~loc.unique THEN Raise("KeyError")
    ELSE
    LET foundCol == columns[loc.at]
        level == row[loc.at]
        urgent == UrgentOf(columns, row, foundCol.outer)
    IN
    IF ~urgent.ok THEN Raise("KeyError")
    ELSE IF FloatOK(level) THEN Return(level, urgent.value)
    ELSE Raise("Required investigation level(s) missing from spreadsheet!")

\* ------------------------------------------------------------------ Row
\* one line of a report df: the arguments Report._get_row_objs passes to Row
Line(n, b, d, f, bd, ed) ==
    [name |-> n, badge |-> b, dose |-> d, freq |-> f, bDate |-> bd, eDate |-> ed]

\* a response sentence: which template, and the values it interpolates
Response(k, n, p, l, b) ==
    [kind |-> k, name |-> n, period |-> p, level |-> l, badge |-> b]

NoResponse == Response("unset", "", NoPeriod, UNSET, "")

\* __post_init__ without the replacement of the dose string "M"
PostInit_KeepM(line, pull_levels, columns, sheet_row) ==
    LET t == get_temporal_data(line)
        lv == IF pull_levels /\ t.ok
              THEN get_levels(columns, sheet_row, line.badge, t.period_type)
              ELSE Return(UNSET, UNSET)
    IN [ok |-> t.ok /\ lv.status = "ok",
        err |-> IF ~t.ok THEN "KeyError" ELSE lv.err,
        row |-> [name |-> line.name, badge |-> line.badge, dose |-> line.dose,
                 freq |-> line.freq, bDate |-> line.bDate, eDate |-> line.eDate,
                 pull_levels |-> pull_levels,
                 period |-> t.period, period_type |-> t.period_type,
                 level |-> lv.level, urgentLevel |-> lv.urgentLevel,
                 response |-> NoResponse,
                 attachTemplate |-> "unset", urgent_flag |-> "unset"]]

\* Row.__post_init__ on the dataclass fields of `line`; ok = FALSE when
\* get_temporal_data or Spreadsheet.get_levels raises (no Row is produced)
PostInit(line, pull_levels, columns, sheet_row) ==
    LET dose == IF line.dose = M THEN 0 ELSE line.dose
        t == get_temporal_data(line)
        lv == IF pull_levels /\ t.ok
              THEN get_levels(columns, sheet_row, line.badge, t.period_type)
              ELSE Return(UNSET, UNSET)
    IN [ok |-> t.ok /\ lv.status = "ok",
        err |-> IF ~t.ok THEN "KeyError" ELSE lv.err,
        row |-> [name |-> line.name, badge |-> line.badge, dose |-> dose,
                 freq |-> line.freq, bDate |-> line.bDate, eDate |-> line.eDate,
                 pull_levels |-> pull_levels,
                 period |-> t.period, period_type |-> t.period_type,
                 level |-> lv.level, urgentLevel |-> lv.urgentLevel,
                 response |-> NoResponse,
                 attachTemplate |-> "unset", urgent_flag |-> "unset"]]

\* gr_monthly with > in place of >=
gr_monthly_Strict(self) ==
    IF self.level >= 0 /\ self.dose > self.level
    THEN Response("monthly exceeded", self.name, self.period, self.level, self.badge)
    ELSE Response("monthly ignored", self.name, self.period, self.level, self.badge)


gr_monthly(self) ==
    IF FloatGE(self.dose, self.level)
    THEN Response("monthly exceeded", self.name, self.period, self.level, self.badge)
    ELSE Response("monthly ignored", self.name, self.period, self.level, self.badge)

gr_quarterly(self) ==
    IF FloatGE(self.dose, self.level)
    THEN Response("quarterly exceeded", self.name, self.period, self.level, self.badge)
    ELSE Response("quarterly ignored", self.name, self.period, self.level, self.badge)

\* NotifiedBy without the comparison of the badges
NotifiedBy_NoBadge(self, pn) ==
    /\ pn.name = self.name
    /\ pn.period_type = self.period_type
    /\ pn.period = self.period
    /\ self.dose >= 0 /\ pn.dose >= 0 /\ self.dose >= pn.dose

\* the five conditions of the loop body of gr_if_ytd_already_raised
NotifiedBy(self, pn) ==
    /\ pn.name = self.name
    /\ pn.badge = self.badge
    /\ pn.period_type = self.period_type
    /\ pn.period = self.period
    /\ FloatGE(self.dose, pn.dose)

\* the for loop of gr_if_ytd_already_raised from entry i on: TRUE when it
\* returns from inside the loop, FALSE when it reaches the else branch
RECURSIVE ScanNotified(_, _, _)
\* the loop looking at the last entry of the history only
ScanNotified_LastOnly(self, past_notifs, i) ==
    /\ past_notifs # <<>>
    /\ NotifiedBy(self, past_notifs[Len(past_notifs)])

ScanNotified(self, past_notifs, i) ==
    IF i > Len(past_notifs) THEN FALSE
    ELSE IF NotifiedBy(self, past_notifs[i]) THEN TRUE
    ELSE ScanNotified(self, past_notifs, i + 1)

\* the response and the value attachTemplate has afterwards
gr_if_ytd_already_raised(self, past_notifs) ==
    IF ScanNotified(self, past_notifs, 1)
    THEN [response |-> Response("ytd no further", self.name, NoPeriod, UNSET, self.badge),
          attachTemplate |-> self.attachTemplate]
    ELSE [response |-> Response("ytd now exceeded", self.name, NoPeriod, self.level,
                                self.badge),
          attachTemplate |-> "True"]

\* gr_ytd that scans the history without comparing the dose with the level
gr_ytd_NoCompare(self, past_notifs) == gr_if_ytd_already_raised(self, past_notifs)


gr_ytd(self, past_notifs) ==
    IF FloatGE(self.dose, self.level)
    THEN gr_if_ytd_already_raised(self, past_notifs)
    ELSE [response |-> Response("ytd ignored", self.name, NoPeriod, self.level,
                                self.badge),
          attachTemplate |-> self.attachTemplate]

\* UrgentRaisedBy comparing the row's own dose with its urgent level
UrgentRaisedBy_OwnDose(self, pn) ==
    /\ pn.name = self.name
    /\ pn.badge = self.badge
    /\ pn.period_type = self.period_type
    /\ pn.period = self.period
    /\ self.dose >= 0 /\ self.urgentLevel >= 0 /\ self.dose >= self.urgentLevel

\* the five conditions of the loop body of urgent_flag_query
UrgentRaisedBy(self, pn) ==
    /\ pn.name = self.name
    /\ pn.badge = self.badge
    /\ pn.period_type = self.period_type
    /\ pn.period = self.period
    /\ FloatGE(pn.dose, self.urgentLevel)

RECURSIVE ScanUrgent(_, _, _)
ScanUrgent(self, past_notifs, i) ==
    IF i > Len(past_notifs) THEN FALSE
    ELSE IF UrgentRaisedBy(self, past_notifs[i]) THEN TRUE
    ELSE ScanUrgent(self, past_notifs, i + 1)

\* Row.urgent_flag_query, for a urgentLevel that float() accepts
urgent_flag_query(self, past_notifs) ==
    IF past_notifs # <<>>
    THEN ScanUrgent(self, past_notifs, 1)
    ELSE FloatGE(self.dose, self.urgentLevel)

BoolStr(b) == IF b THEN "True" ELSE "False"

\* analyse that asks urgent_flag_query whatever the dose
analyse_Unguarded(self, past_notifs) ==
    LET r0 == [self EXCEPT !.attachTemplate = "False"]
        got == CASE r0.period_type = "monthly" ->
                      [response |-> gr_monthly(r0), attachTemplate |-> r0.attachTemplate]
                 [] r0.period_type = "quarterly" ->
                      [response |-> gr_quarterly(r0), attachTemplate |-> r0.attachTemplate]
                 [] OTHER -> gr_ytd(r0, past_notifs)
        r1 == [r0 EXCEPT !.response = got.response,
                         !.attachTemplate = got.attachTemplate]
    IN IF ~FloatOK(r1.urgentLevel)
       THEN [raised |-> TRUE, row |-> r1]
       ELSE [raised |-> FALSE,
             row |-> [r1 EXCEPT !.urgent_flag =
                         BoolStr(urgent_flag_query(r1, past_notifs))]]

\* analyse whose period_type2method_mapping sends every period type to gr_ytd
analyse_YtdForAll(self, past_notifs) ==
    LET r0 == [self EXCEPT !.attachTemplate = "False"]
        got == gr_ytd(r0, past_notifs)
        r1 == [r0 EXCEPT !.response = got.response,
                         !.attachTemplate = got.attachTemplate]
    IN IF ~FloatOK(r1.urgentLevel)
       THEN [raised |-> TRUE, row |-> r1]
       ELSE [raised |-> FALSE,
             row |-> [r1 EXCEPT !.urgent_flag =
                         IF FloatGE(r1.dose, r1.urgentLevel)
                         THEN BoolStr(urgent_flag_query(r1, past_notifs))
                         ELSE "False"]]

\* analyse that swallows the error of float(self.urgentLevel)
analyse_Swallow(self, past_notifs) ==
    LET r0 == [self EXCEPT !.attachTemplate = "False"]
        got == CASE r0.period_type = "monthly" ->
                      [response |-> gr_monthly(r0), attachTemplate |-> r0.attachTemplate]
                 [] r0.period_type = "quarterly" ->
                      [response |-> gr_quarterly(r0), attachTemplate |-> r0.attachTemplate]
                 [] OTHER -> gr_ytd(r0, past_notifs)
        r1 == [r0 EXCEPT !.response = got.response,
                         !.attachTemplate = got.attachTemplate]
    IN IF ~FloatOK(r1.urgentLevel)
       THEN [raised |-> FALSE, row |-> r1]
       ELSE [raised |-> FALSE,
             row |-> [r1 EXCEPT !.urgent_flag =
                         IF FloatGE(r1.dose, r1.urgentLevel)
                         THEN BoolStr(urgent_flag_query(r1, past_notifs))
                         ELSE "False"]]

\* analyse that counts the notification the row itself asked for the last
\* time as one of the past
analyse_RemembersOwn(self, past_notifs) ==
    LET hist == IF self.attachTemplate = "True"
                THEN Append(past_notifs, self) ELSE past_notifs
        r0 == [self EXCEPT !.attachTemplate = "False"]
        got == CASE r0.period_type = "monthly" ->
                      [response |-> gr_monthly(r0), attachTemplate |-> r0.attachTemplate]
                 [] r0.period_type = "quarterly" ->
                      [response |-> gr_quarterly(r0), attachTemplate |-> r0.attachTemplate]
                 [] OTHER -> gr_ytd(r0, hist)
        r1 == [r0 EXCEPT !.response = got.response,
                         !.attachTemplate = got.attachTemplate]
    IN IF ~FloatOK(r1.urgentLevel)
       THEN [raised |-> TRUE, row |-> r1]
       ELSE [raised |-> FALSE,
             row |-> [r1 EXCEPT !.urgent_flag =
                         IF FloatGE(r1.dose, r1.urgentLevel)
                         THEN BoolStr(urgent_flag_query(r1, hist))
                         ELSE "False"]]

\* analyse that also overwrites the level of the row with its urgent level
analyse_WritesLevel(self, past_notifs) ==
    LET r0 == [self EXCEPT !.attachTemplate = "False"]
        got == CASE r0.period_type = "monthly" ->
                      [response |-> gr_monthly(r0), attachTemplate |-> r0.attachTemplate]
                 [] r0.period_type = "quarterly" ->
                      [response |-> gr_quarterly(r0), attachTemplate |-> r0.attachTemplate]
                 [] OTHER -> gr_ytd(r0, past_notifs)
        r1 == [r0 EXCEPT !.response = got.response,
                         !.attachTemplate = got.attachTemplate,
                         !.level = r0.urgentLevel]
    IN IF ~FloatOK(r1.urgentLevel)
       THEN [raised |-> TRUE, row |-> r1]
       ELSE [raised |-> FALSE,
             row |-> [r1 EXCEPT !.urgent_flag =
                         IF FloatGE(r1.dose, r1.urgentLevel)
                         THEN BoolStr(urgent_flag_query(r1, past_notifs))
                         ELSE "False"]]

\* Row.analyse: the row afterwards, and whether float(self.urgentLevel) raised
analyse(self, past_notifs) ==
    LET r0 == [self EXCEPT !.attachTemplate = "False"]
        got == CASE r0.period_type = "monthly" ->
                      [response |-> gr_monthly(r0), attachTemplate |-> r0.attachTemplate]
                 [] r0.period_type = "quarterly" ->
                      [response |-> gr_quarterly(r0), attachTemplate |-> r0.attachTemplate]
                 [] OTHER -> gr_ytd(r0, past_notifs)
        r1 == [r0 EXCEPT !.response = got.response,
                         !.attachTemplate = got.attachTemplate]
    IN IF ~FloatOK(r1.urgentLevel)
       THEN [raised |-> TRUE, row |-> r1]
       ELSE [raised |-> FALSE,
             row |-> [r1 EXCEPT !.urgent_flag =
                         IF FloatGE(r1.dose, r1.urgentLevel)
                         THEN BoolStr(urgent_flag_query(r1, past_notifs))
                         ELSE "False"]]

\* ------------------------------------------------------------------ load_df
\* the codes LandauerTask._get_code cuts out of the report's file name
account_code == "ACC"
subaccount_code == "SUB"

\* a sheet after _crop_df and _initiate_multi_index: the column labels (the
\* last two columns are the contact and the CC) and the cells of each code
Sheet(columns, rows) == [columns |-> columns, rows |-> rows]

NoDf == Sheet(<<>>, <<>>)

\* the test for DEFAULT looking at the first cell of the row only
ContainsDefault_FirstCell(cells) == cells[1] = DEFAULT

\* Series.str.contains("DEFAULT", case=False).any()
ContainsDefault(cells) == \E i \in 1..Len(cells) : cells[i] = DEFAULT

\* a test of the contact and CC cells that accepts every cell
IsEmail_Any(c) == TRUE

\* isinstance(c, str) and "@" in c
IsEmail(c) == IsStr(c) /\ c = EMAIL

\* Spreadsheet.load_df on the sheet read from the workbook: the class
\* attributes afterwards and whether it raised
load_df(cls, df, account, subaccount) ==
    IF subaccount \notin DOMAIN df.rows
    THEN [raised |-> TRUE, err |-> "KeyError", cls |-> cls]
    ELSE
    LET row == df.rows[subaccount]
        c1 == [cls EXCEPT !.contact = row[Len(row) - 1], !.CC = row[Len(row)]]
    IN
    IF ~IsEmail(c1.contact)
    THEN [raised |-> TRUE, err |-> "Contact email for subaccount not found!", cls |-> c1]
    ELSE IF ~IsEmail(c1.CC)
    THEN [raised |-> TRUE, err |-> "Site lead CC not found!", cls |-> c1]
    ELSE IF ContainsDefault(row) /\ account \notin DOMAIN df.rows
    THEN [raised |-> TRUE, err |-> "KeyError", cls |-> c1]
    ELSE [raised |-> FALSE, err |-> "",
          cls |-> [c1 EXCEPT !.df = df,
                             !.row = IF ContainsDefault(row)
                                     THEN df.rows[account] ELSE row]]

\* ------------------------------------------------------------------ Report
\* Report.__init__: a Row for each line of the table, in the table's order
Report_init(lines, pull_levels, columns, sheet_row) ==
    [i \in 1..Len(lines) |-> PostInit(lines[i], pull_levels, columns, sheet_row)]

\* no Row of the report raised
ReportBuilt(lines, built) ==
    \A i \in 1..Len(lines) : get_dose_column(lines[i].badge).ok /\ built[i].ok

\* Report.rows
RowsOf(built) == [i \in 1..Len(built) |-> built[i].row]

\* ------------------------------------------------------------------ history
\* a pdf of the directory: its name, its st_mtime and the lines of its table
File(name, mtime, lines) == [name |-> name, mtime |-> mtime, lines |-> lines]

\* "OVXRPT_" in str(path.name)
HasOvxrpt(name) ==
    name \in {"OVXRPT_cur.pdf", "OVXRPT_a.pdf", "OVXRPT_b.pdf", "OVXRPT_x.pdf"}

\* the test with st_mtime <= in place of <
IsPast_NotLater(f, path) ==
    /\ HasOvxrpt(path.name)
    /\ path.name # f.cur
    /\ \E i \in 1..Len(f.listing) :
          f.listing[i].name = f.cur /\ path.mtime <= f.listing[i].mtime

\* the test of the list comprehension, lines 78-83
IsPast(f, path) ==
    /\ HasOvxrpt(path.name)
    /\ path.name # f.cur
    /\ \E i \in 1..Len(f.listing) :
          f.listing[i].name = f.cur /\ path.mtime < f.listing[i].mtime

\* Report(path, pull_levels=False)
PastReport(lines) == Report_init(lines, FALSE, <<>>, <<>>)

\* itertools.chain(*[report.rows for report in past_reports]) over the past
\* reports of the listing, in the order glob yields it
RECURSIVE Chain(_, _)
Chain(f, listing) ==
    IF listing = <<>> THEN <<>>
    ELSE (IF IsPast(f, listing[1])
          THEN RowsOf(PastReport(listing[1].lines)) ELSE <<>>)
         \o Chain(f, Tail(listing))

\* no Report of the list comprehension past_reports raised
PastReportsBuilt(f) ==
    \A i \in 1..Len(f.listing) :
        IsPast(f, f.listing[i]) =>
            ReportBuilt(f.listing[i].lines, PastReport(f.listing[i].lines))

\* LandauerTask._get_past_notifications; ok = FALSE when a Row of a past
\* report cannot be built
get_past_notifications(f) ==
    [ok |-> PastReportsBuilt(f), rows |-> Chain(f, f.listing)]

\* ------------------------------------------------------------------ Email
\* any() that looks at the first row only
AnyTrue_First(flags) == flags # <<>> /\ flags[1] = "True"

\* any([...]) over one attribute of the rows
AnyTrue(flags) == \E i \in 1..Len(flags) : flags[i] = "True"

\* a sentence of a bullet: its lead-in and the response it is the text of
Sentence(lead, r) == [lead |-> lead, response |-> r]

\* r.replace(f"For wearer {key}", "Also for this wearer"): every response
\* starts with "For wearer " and the name of its row
ReplaceLead(r, key) ==
    IF r.name = key THEN Sentence(<<"Also for this wearer">>, r)
    ELSE Sentence(<<"For wearer", r.name>>, r)

\* the keys of the dict bullets in insertion order: the name of every row
\* that is the first of its name
BulletKeys(rows) ==
    LET first == SelectSeq([i \in 1..Len(rows) |-> i],
                           LAMBDA i : \A j \in 1..(i - 1) : rows[j].name # rows[i].name)
    IN [k \in 1..Len(first) |-> rows[first[k]].name]

\* bullets[key] after the first loop: the responses of the rows named key
ResponsesOf(rows, key) ==
    LET mine == SelectSeq(rows, LAMBDA r : r.name = key)
    IN [k \in 1..Len(mine) |-> mine[k].response]

\* Email.get_bullets of src/email_obj.py: one <li> per row, ungrouped
get_bullets_PerRow(report) ==
    [k \in 1..Len(report.rows) |->
        <<Sentence(<<"For wearer", report.rows[k].response.name>>,
                   report.rows[k].response)>>]

\* Email.get_bullets of overxrpt_analyser/email_obj.py: one <li> per key,
\* its sentences joined by " "
get_bullets(report) ==
    LET keys == BulletKeys(report.rows) IN
    [k \in 1..Len(keys) |->
        LET responses == ResponsesOf(report.rows, keys[k]) IN
        [n \in 1..Len(responses) |->
            IF n = 1 THEN Sentence(<<"For wearer", responses[1].name>>, responses[1])
            ELSE ReplaceLead(responses[n], keys[k])]]

\* Email.write_body: the bullets, and the template phrase when there are two
\* attachments
write_body(bullets, attachments) ==
    [bullets |-> bullets, template_phrase |-> Len(attachments) >= 2]

\* Email.__init__, up to the call of draft
Email_init(report, subaccount) ==
    LET attachments ==
            <<"report">> \o
            (IF AnyTrue([i \in 1..Len(report.rows) |-> report.rows[i].attachTemplate])
             THEN <<"template">> ELSE <<>>)
        urgent_flag ==
            IF AnyTrue([i \in 1..Len(report.rows) |-> report.rows[i].urgent_flag])
            THEN "URGENT:" ELSE ""
        bullets == get_bullets(report)
    IN [attachments |-> attachments,
        urgent_flag |-> urgent_flag,
        subject |-> <<urgent_flag, subaccount, "Landauer Overexposure Notification">>,
        bullets |-> bullets,
        body |-> write_body(bullets, attachments)]

\* ------------------------------------------------------------------ inputs
Doses == 0..MaxDose

\* what a cell of a level column may hold
Cells == Doses \cup {NAN, TXT}

WholeBodyDDE == <<"Whole", " ", "Body", " ", "(", "DDE", ")">>

\* the threshold table of the runs: one badge group, a wear-period level,
\* an annual level and the urgent level, then the contact and the CC
RunColumns ==
    <<Col(WholeBodyDDE, <<"Wear", " ", "Period">>),
      Col(WholeBodyDDE, <<"Annual">>),
      Col(WholeBodyDDE, <<"Urgent">>),
      Col(<<"Contact">>, <<"Email">>),
      Col(<<"CC">>, <<"Email">>)>>

AccountRow == <<1, 1, 2, EMAIL, EMAIL>>

\* the subaccount rows: the account's row with one level replaced by any cell,
\* and any urgent level
SubaccountRows ==
    {<<w, AccountRow[2], u, EMAIL, EMAIL>> : w, u \in Cells}
    \cup {<<AccountRow[1], a, u, EMAIL, EMAIL>> : a, u \in Cells}

DefaultRow == <<DEFAULT, DEFAULT, DEFAULT, EMAIL, EMAIL>>

\* the sheets load_df may read: the well-formed ones, then one without the
\* subaccount, two without an address, and three that defer to the account's
\* row (in every level cell, in one level cell, and with no account row)
RunSheets ==
    {Sheet(RunColumns, (account_code :> AccountRow) @@ (subaccount_code :> r)) :
        r \in SubaccountRows}
    \cup {Sheet(RunColumns, (account_code :> AccountRow)),
          Sheet(RunColumns, (account_code :> AccountRow)
                            @@ (subaccount_code :> <<1, 1, 2, NAN, EMAIL>>)),
          Sheet(RunColumns, (account_code :> AccountRow)
                            @@ (subaccount_code :> <<1, 1, 2, EMAIL, TXT>>)),
          Sheet(RunColumns, (account_code :> AccountRow)
                            @@ (subaccount_code :> DefaultRow)),
          Sheet(RunColumns, (account_code :> AccountRow)
                            @@ (subaccount_code :> <<2, DEFAULT, 2, EMAIL, EMAIL>>)),
          Sheet(RunColumns, (subaccount_code :> DefaultRow))}

Jan1 == Date(2024, 1, 1)

\* the lines of the current report: one wearer and badge, every dose string,
\* the three frequencies; and three lines no Row can be built from
ReportLines ==
    {Line("Smith", "collar", d, "1MO", Jan1, Date(2024, 1, 31)) : d \in Doses \cup {M}}
    \cup {Line("Smith", "collar", d, "3MO", Jan1, Date(2024, 3, 31)) : d \in Doses \cup {M}}
    \cup {Line("Smith", "collar", d, "", Jan1, Date(2024, 3, 31)) : d \in Doses \cup {M}}
    \cup {Line("Smith", "collar", 1, "6MO", Jan1, Date(2024, 6, 30)),
          Line("Smith", "collar", 1, "3MO", Date(2024, 2, 1), Date(2024, 5, 31)),
          Line("Smith", "ankle", 1, "1MO", Jan1, Date(2024, 1, 31))}

\* the lines of older reports: the year-to-date line of the same wearer, badge
\* and period at every dose, and one line differing from it in each key
HistLines ==
    {Line("Smith", "collar", d, "", Jan1, Date(2024, 2, 29)) : d \in Doses}
    \cup {Line("Jones", "collar", 1, "", Jan1, Date(2024, 2, 29)),
          Line("Smith", "chest", 1, "", Jan1, Date(2024, 2, 29)),
          Line("Smith", "collar", 1, "1MO", Jan1, Date(2024, 1, 31)),
          Line("Smith", "collar", 1, "", Date(2023, 1, 1), Date(2023, 12, 31))}

\* the rows Report(path, pull_levels=False) builds from them
HistRows == {PostInit(l, FALSE, <<>>, <<>>).row : l \in HistLines}

Histories == UNION {[1..n -> HistRows] : n \in 0..MaxHist}

\* ---- the lines of the period and badge checks: every badge label of the
\* groupings and one of none, the three frequencies and one unknown, every
\* begin month and end month, the end date in the begin year or the next
ResolveBadges ==
    {"collar", "other whole body", "chest", "waist", "left finger", "right finger",
     "lens", "ankle"}

ResolveLines ==
    {Line("Smith", b, 1, f, Date(2024, bm, 1), Date(ey, em, 28)) :
        b \in ResolveBadges, f \in {"1MO", "3MO", "", "6MO"},
        bm \in 1..12, em \in 1..12, ey \in {2024, 2025}}

\* ---- the runs over a whole report: a well-formed table, one whose Urgent
\* cell is text and one without the subaccount
ReportSheets ==
    {Sheet(RunColumns, (account_code :> AccountRow) @@ (subaccount_code :> AccountRow)),
     Sheet(RunColumns, (account_code :> AccountRow)
                       @@ (subaccount_code :> <<1, 1, TXT, EMAIL, EMAIL>>)),
     Sheet(RunColumns, (account_code :> AccountRow))}

\* the lines a report of these runs is made of: two wearers, a monthly line
\* at the urgent level, year-to-date lines at and below the level, and a line
\* no Row can be built from
RowLines ==
    {Line("Smith", "collar", 2, "1MO", Jan1, Date(2024, 1, 31)),
     Line("Smith", "collar", 1, "", Jan1, Date(2024, 3, 31)),
     Line("Smith", "chest", 0, "", Jan1, Date(2024, 3, 31)),
     Line("Jones", "collar", 1, "", Jan1, Date(2024, 3, 31)),
     Line("Smith", "collar", 1, "6MO", Jan1, Date(2024, 6, 30))}

ReportLineSeqs == UNION {[1..n -> RowLines] : n \in 0..MaxRows}

\* the chosen report, whose table holds the lines df
CurFile(df) == File("OVXRPT_cur.pdf", 2, df)

\* the files that may stand next to it: two older reports' names, a file that
\* is no report, and a report with a line no Row can be built from
OtherFileLines ==
    [a |-> <<Line("Smith", "collar", 1, "", Jan1, Date(2024, 2, 29))>>,
     b |-> <<Line("Jones", "collar", 1, "", Jan1, Date(2024, 2, 29)),
             Line("Smith", "collar", 2, "", Jan1, Date(2024, 2, 29))>>,
     n |-> <<Line("Smith", "collar", 1, "", Jan1, Date(2024, 2, 29))>>,
     x |-> <<Line("Smith", "collar", 1, "6MO", Jan1, Date(2024, 6, 30))>>]

OtherFileNames ==
    [a |-> "OVXRPT_a.pdf", b |-> "OVXRPT_b.pdf", n |-> "notes.pdf", x |-> "OVXRPT_x.pdf"]

OtherFile(k, mtime) == File(OtherFileNames[k], mtime, OtherFileLines[k])

\* the directories of the runs over a whole report: the report alone, with
\* an older report, and with an older report that cannot be read
ReportFolders(df) ==
    {[listing |-> <<CurFile(df)>>, cur |-> CurFile(df).name],
     [listing |-> <<OtherFile("a", 1), CurFile(df)>>,
      cur |-> CurFile(df).name],
     [listing |-> <<CurFile(df), OtherFile("x", 1)>>,
      cur |-> CurFile(df).name]}

\* the directories of the history checks: some of the other files in any
\* order (ks), each modified before, when or after the chosen report was (ts),
\* listed before it
FolderOrders(n) ==
    {ks \in [1..n -> DOMAIN OtherFileLines] : \A i, j \in 1..n : i # j => ks[i] # ks[j]}

FolderTimes(n) == [1..n -> 1..3]

Folder(ks, ts, df) ==
    [listing |-> [i \in 1..Len(ks) |-> OtherFile(ks[i], ts[i])] \o <<CurFile(df)>>,
     cur |-> CurFile(df).name]

\* ---- the threshold tables of the get_levels checks
LensLDE == <<"Lens", " ", "(", "LDE", ")">>

\* the outer labels, in the order their Urgent columns are laid out
OuterOrder == <<<<"Collar">>, WholeBodyDDE, <<"DDE">>, <<"Lenses">>, LensLDE>>

LevelCols ==
    {Col(<<"Collar">>, <<"Wear", " ", "Period">>),
     Col(WholeBodyDDE, <<"Monthly">>),
     Col(WholeBodyDDE, <<"Annual">>),
     Col(<<"DDE">>, <<"Annual">>),
     Col(<<"Lenses">>, <<"Annual">>),
     Col(LensLDE, <<"Annual">>)}

RangeOf(seq) == {seq[i] : i \in 1..Len(seq)}

\* one Urgent column for every outer label the level columns use
UrgentCols(levelCols) ==
    LET used == {c.outer : c \in RangeOf(levelCols)}
        outers == SelectSeq(OuterOrder, LAMBDA o : o \in used)
    IN [j \in 1..Len(outers) |-> Col(outers[j], <<"Urgent">>)]

OuterIndex(o) == CHOOSE j \in 1..Len(OuterOrder) : OuterOrder[j] = o

\* how the cells of a table of n level columns are filled: the cell of level
\* column i is the number i and the Urgent cell of the j-th outer label is
\* 10 + j ("numbers"), but for one level cell that is blank or text, or for
\* Urgent cells that are text, or for missing Urgent columns
Fillings(n) ==
    {[kind |-> k, at |-> 0] : k \in {"numbers", "urgent text", "no urgent"}}
    \cup {[kind |-> k, at |-> i] : k \in {"blank", "text"}, i \in 1..n}

LevelSheet(levelCols, filling) ==
    LET urgentCols == IF filling.kind = "no urgent" THEN <<>>
                      ELSE UrgentCols(levelCols)
        levelCells == [i \in 1..Len(levelCols) |->
                          IF i # filling.at THEN i
                          ELSE IF filling.kind = "blank" THEN NAN ELSE TXT]
        urgentCells == [j \in 1..Len(urgentCols) |->
                           IF filling.kind = "urgent text" THEN TXT
                           ELSE 10 + OuterIndex(urgentCols[j].outer)]
    IN Sheet(levelCols \o urgentCols
                \o <<Col(<<"Contact">>, <<"Email">>), Col(<<"CC">>, <<"Email">>)>>,
             (subaccount_code :> levelCells \o urgentCells \o <<EMAIL, EMAIL>>))

LevelSheets ==
    UNION {{LevelSheet(cols, f) : cols \in [1..n -> LevelCols], f \in Fillings(n)} :
              n \in 1..MaxCols}

\* the badges and period types get_levels is called with
CallBadges == {"collar", "lens", "ankle"}
CallPeriodTypes == {"monthly", "YTD"}

\* ------------------------------------------------------------------ state
VARIABLES
    Spreadsheet,   \* the class attributes df, row, contact, CC of Spreadsheet
    line,          \* the line of the current report's df
    row,           \* the Row built from it
    past_notifs,   \* Row.past_notifs
    ret,           \* what a direct call of a query returned
    pc,            \* how far LandauerTask.run has come
    folder,        \* the directory of the chosen report: its files, and the
                   \* name of the chosen one (self.cur_report_path)
    cur_report,    \* self.cur_report: the rows of the current Report
    rowIndex,      \* how many rows the loop of Report.analyse has passed
    email          \* self.email

vars == <<Spreadsheet, line, row, past_notifs, ret, pc,
          folder, cur_report, rowIndex, email>>

\* what only the runs over a whole report and its directory change
reportVars == <<folder, cur_report, rowIndex, email>>

NoLine == Line("", "", 0, "", Date(0, 0, 0), Date(0, 0, 0))

NoRow == PostInit(NoLine, FALSE, <<>>, <<>>).row

NoRet == [op |-> "none", value |-> "unset"]

NoFolder == [listing |-> <<>>, cur |-> ""]

NoReport == [df |-> <<>>, rows |-> <<>>]

NoEmail == [attachments |-> <<>>, urgent_flag |-> "unset", subject |-> <<>>,
            bullets |-> <<>>, body |-> write_body(<<>>, <<>>)]

Init ==
    /\ Spreadsheet = [df |-> NoDf, row |-> <<>>, contact |-> UNSET, CC |-> UNSET]
    /\ line = NoLine
    /\ row = NoRow
    /\ past_notifs = <<>>
    /\ ret = NoRet
    /\ pc = "start"
    /\ folder = NoFolder
    /\ cur_report = NoReport
    /\ rowIndex = 0
    /\ email = NoEmail

\* run, line 25: Spreadsheet.load_df(self.account_code, self.subaccount_code)
LoadDf(sheets) ==
    /\ pc = "start"
    /\ \E df \in sheets :
          LET out == load_df(Spreadsheet, df, account_code, subaccount_code) IN
          /\ Spreadsheet' = out.cls
          /\ pc' = IF out.raised THEN "load_df raised" ELSE "loaded"
    /\ UNCHANGED <<line, row, past_notifs, ret>>
    /\ UNCHANGED reportVars

LoadRunSheet == LoadDf(RunSheets)

\* run, line 26: Report(self.cur_report_path, pull_levels=True), whose
\* _get_row_objs builds the Row of the report's line
NewReport ==
    /\ pc = "loaded"
    /\ \E l \in ReportLines :
          LET built == PostInit(l, TRUE, Spreadsheet.df.columns, Spreadsheet.row) IN
          /\ line' = l
          /\ IF get_dose_column(l.badge).ok /\ built.ok
             THEN row' = built.row /\ pc' = "report"
             ELSE row' = row /\ pc' = "report raised"
    /\ UNCHANGED <<Spreadsheet, past_notifs, ret>>
    /\ UNCHANGED reportVars

\* run, line 27: setattr(Row, "past_notifs", self._get_past_notifications())
SetPastNotifs ==
    /\ pc = "report"
    /\ \E h \in Histories : past_notifs' = h
    /\ pc' = "history"
    /\ UNCHANGED <<Spreadsheet, line, row, ret>>
    /\ UNCHANGED reportVars

\* run, line 28: self.cur_report.analyse(), which calls Row.analyse
Analyse ==
    /\ pc = "history"
    /\ LET out == analyse(row, past_notifs) IN
          /\ row' = out.row
          /\ pc' = IF out.raised THEN "analyse raised" ELSE "analysed"
    /\ UNCHANGED <<Spreadsheet, line, past_notifs, ret>>
    /\ UNCHANGED reportVars

Next == LoadRunSheet \/ NewReport \/ SetPastNotifs \/ Analyse

Spec == Init /\ [][Next]_vars

\* a direct call of Row.urgent_flag_query on the row, as a test makes it
UrgentFlagQuery ==
    /\ pc = "history"
    /\ ret' = [op |-> "urgent_flag_query",
               value |-> IF FloatOK(row.urgentLevel)
                         THEN BoolStr(urgent_flag_query(row, past_notifs))
                         ELSE "ValueError"]
    /\ pc' = "queried"
    /\ UNCHANGED <<Spreadsheet, line, row, past_notifs>>
    /\ UNCHANGED reportVars

NextQuery == LoadRunSheet \/ NewReport \/ SetPastNotifs \/ UrgentFlagQuery

SpecQuery == Init /\ [][NextQuery]_vars

LoadLevelSheet == LoadDf(LevelSheets)

\* a direct call of Spreadsheet.get_levels(badge, period_type)
GetLevels ==
    /\ pc = "loaded"
    /\ \E badge \in CallBadges, period_type \in CallPeriodTypes :
          ret' = [op |-> "get_levels", badge |-> badge, period_type |-> period_type,
                  out |-> get_levels(Spreadsheet.df.columns, Spreadsheet.row,
                                     badge, period_type)]
    /\ pc' = "levels"
    /\ UNCHANGED <<Spreadsheet, line, row, past_notifs>>
    /\ UNCHANGED reportVars

NextLevels == LoadLevelSheet \/ GetLevels

SpecLevels == Init /\ [][NextLevels]_vars

InitResolve ==
    /\ Spreadsheet = [df |-> NoDf, row |-> <<>>, contact |-> UNSET, CC |-> UNSET]
    /\ line \in ResolveLines
    /\ row = NoRow
    /\ past_notifs = <<>>
    /\ ret = NoRet
    /\ pc = "start"
    /\ folder = NoFolder
    /\ cur_report = NoReport
    /\ rowIndex = 0
    /\ email = NoEmail

\* a direct call of Row.get_temporal_data on the fields of the line
GetTemporalData ==
    /\ pc = "start"
    /\ ret' = [op |-> "get_temporal_data", out |-> get_temporal_data(line)]
    /\ pc' = "resolved"
    /\ UNCHANGED <<Spreadsheet, line, row, past_notifs>>
    /\ UNCHANGED reportVars

\* direct calls of BadgeMapper.get_Excel_Hierarchy and get_dose_column
GetExcelHierarchy ==
    /\ pc = "start"
    /\ ret' = [op |-> "BadgeMapper", badge |-> line.badge,
               get_Excel_Hierarchy |-> Badge_get_Excel_Hierarchy(line.badge),
               get_dose_column |-> get_dose_column(line.badge)]
    /\ pc' = "mapped"
    /\ UNCHANGED <<Spreadsheet, line, row, past_notifs>>
    /\ UNCHANGED reportVars

\* Report(path, pull_levels=False): _get_row_objs builds the Row of the line
\* without looking up its levels
NewPastRow ==
    /\ pc = "start"
    /\ LET built == PostInit(line, FALSE, <<>>, <<>>) IN
          IF get_dose_column(line.badge).ok /\ built.ok
          THEN row' = built.row /\ pc' = "row built"
          ELSE row' = row /\ pc' = "row raised"
    /\ UNCHANGED <<Spreadsheet, line, past_notifs, ret>>
    /\ UNCHANGED reportVars

NextResolve == GetTemporalData \/ GetExcelHierarchy \/ NewPastRow

SpecResolve == InitResolve /\ [][NextResolve]_vars

LoadReportSheet == LoadDf(ReportSheets)

\* run, line 26: Report(self.cur_report_path, pull_levels=True), whose
\* _get_row_objs builds a Row from every line of the report
SetCurReport(lines, built) ==
    IF ReportBuilt(lines, built)
    THEN /\ cur_report' = [df |-> lines, rows |-> RowsOf(built)]
         /\ pc' = "report"
    ELSE /\ cur_report' = cur_report
         /\ pc' = "report raised"

NewCurReport ==
    /\ pc = "loaded"
    /\ \E lines \in ReportLineSeqs :
          SetCurReport(lines, Report_init(lines, TRUE, Spreadsheet.df.columns,
                                          Spreadsheet.row))
    /\ UNCHANGED <<Spreadsheet, line, row, past_notifs, ret, folder, rowIndex, email>>

\* run, line 27: setattr(Row, "past_notifs", self._get_past_notifications()),
\* which lists the directory of the chosen report
SetHistory(f, out) ==
    /\ folder' = f
    /\ past_notifs' = IF out.ok THEN out.rows ELSE past_notifs
    /\ pc' = IF out.ok THEN "history" ELSE "history raised"

GetPastNotifications(f) ==
    /\ pc = "report"
    /\ SetHistory(f, get_past_notifications(f))
    /\ UNCHANGED <<Spreadsheet, line, row, ret, cur_report, rowIndex, email>>

SetReportHistory == \E f \in ReportFolders(cur_report.df) : GetPastNotifications(f)

\* run, line 28: one pass of the loop of Report.analyse, row.analyse()
SetAnalysed(out) ==
    /\ cur_report' = [cur_report EXCEPT !.rows[rowIndex + 1] = out.row]
    /\ rowIndex' = IF out.raised THEN rowIndex ELSE rowIndex + 1
    /\ pc' = IF out.raised THEN "analyse raised" ELSE "history"

AnalyseRow ==
    /\ pc = "history"
    /\ rowIndex < Len(cur_report.rows)
    /\ SetAnalysed(analyse(cur_report.rows[rowIndex + 1], past_notifs))
    /\ UNCHANGED <<Spreadsheet, line, row, past_notifs, ret, folder, email>>

\* run, line 29: Email(self.cur_report, self.subaccount_code), once the loop
\* of Report.analyse has passed every row
NewEmail ==
    /\ pc = "history"
    /\ rowIndex = Len(cur_report.rows)
    /\ email' = Email_init(cur_report, subaccount_code)
    /\ pc' = "emailed"
    /\ UNCHANGED <<Spreadsheet, line, row, past_notifs, ret, folder, cur_report,
                   rowIndex>>

NextReport ==
    LoadReportSheet \/ NewCurReport \/ SetReportHistory \/ AnalyseRow \/ NewEmail

SpecReport == Init /\ [][NextReport]_vars

\* ---- the run over a report of one line, in every directory
LoadHistorySheet ==
    LoadDf({Sheet(RunColumns, (account_code :> AccountRow)
                              @@ (subaccount_code :> AccountRow))})

SetFolderHistory ==
    \E n \in 0..MaxFiles :
        \E ks \in FolderOrders(n), ts \in FolderTimes(n) :
            GetPastNotifications(Folder(ks, ts, <<line>>))

NextHistory == LoadHistorySheet \/ NewReport \/ SetFolderHistory \/ Analyse

SpecHistory == Init /\ [][NextHistory]_vars

\* ------------------------------------------------------------------ claims
\* Row.analyse has run on the row (response and attachTemplate are set)
Called == pc \in {"analysed", "analyse raised"}

\* the history entry pn equals the row on (name, badge, period_type, period)
SameKeys(pn) ==
    /\ pn.name = row.name
    /\ pn.badge = row.badge
    /\ pn.period_type = row.period_type
    /\ pn.period = row.period

Entries == {past_notifs[i] : i \in 1..Len(past_notifs)}

\* the dose is a number at or above the level v (blank levels compare False)
DoseAtLeast(v) == v >= 0 /\ row.dose >= v

\* the dose is a number below the level v
DoseBelow(v) == v >= 0 /\ row.dose < v

\* the row as it was before analyse set its three attributes
Built ==
    [row EXCEPT !.response = NoResponse, !.attachTemplate = "unset",
                !.urgent_flag = "unset"]

\* C1: a YTD row with dose >= level gets the 'no further investigation'
\* sentence and attachTemplate = False iff some history entry has its four
\* keys and a dose not above the row's; otherwise it gets the 'now exceeded'
\* sentence and attachTemplate = True.
C1_SuppressedIffNotified ==
    (Called /\ row.period_type = "YTD" /\ DoseAtLeast(row.level)) =>
        IF \E pn \in Entries : SameKeys(pn) /\ row.dose >= pn.dose
        THEN /\ row.response =
                  Response("ytd no further", row.name, NoPeriod, UNSET, row.badge)
             /\ row.attachTemplate = "False"
        ELSE /\ row.response =
                  Response("ytd now exceeded", row.name, NoPeriod, row.level, row.badge)
             /\ row.attachTemplate = "True"

\* C1 witness: the second entry of the history is the one that suppresses
C1_Witness ==
    /\ pc = "analysed" /\ row.period_type = "YTD" /\ DoseAtLeast(row.level)
    /\ Len(past_notifs) = 2
    /\ ~SameKeys(past_notifs[1])
    /\ SameKeys(past_notifs[2]) /\ row.dose >= past_notifs[2].dose
    /\ row.response.kind = "ytd no further" /\ row.attachTemplate = "False"

\* C2: a YTD row with dose >= level whose only history entry has its four
\* keys and a strictly lower dose is not suppressed: it gets the 'now
\* exceeded' sentence and attachTemplate = True.
C2_LowerDoseDoesNotSuppress ==
    (/\ Called /\ row.period_type = "YTD" /\ DoseAtLeast(row.level)
     /\ Len(past_notifs) = 1
     /\ SameKeys(past_notifs[1]) /\ past_notifs[1].dose < row.dose) =>
        /\ row.response.kind = "ytd now exceeded"
        /\ row.attachTemplate = "True"

\* the history says the urgent level was already reached for the row's keys
UrgentAlreadyRaised ==
    \E pn \in Entries : SameKeys(pn) /\ row.urgentLevel >= 0 /\ pn.dose >= row.urgentLevel

\* C3: after analyse, urgent_flag is True only if dose >= urgentLevel and no
\* history entry with the row's keys has a dose >= urgentLevel; and a row
\* that meets the urgent level with no such entry is flagged.
C3_UrgentOnlyIfNotAlreadyRaised ==
    pc = "analysed" =>
        /\ row.urgent_flag = "True" =>
              DoseAtLeast(row.urgentLevel) /\ ~UrgentAlreadyRaised
        /\ (DoseAtLeast(row.urgentLevel) /\ ~UrgentAlreadyRaised) =>
              row.urgent_flag = "True"

\* C4: after analyse on a row with dose < urgentLevel, urgent_flag is False
\* whatever the history holds.
C4_BelowUrgentNeverFlagged ==
    (pc = "analysed" /\ DoseBelow(row.urgentLevel)) => row.urgent_flag = "False"

\* C4 witness: the history holds an entry that reached the urgent level
C4_Witness ==
    /\ pc = "analysed" /\ DoseBelow(row.urgentLevel)
    /\ UrgentAlreadyRaised
    /\ row.urgent_flag = "False"

Outcome(r) == <<r.response, r.attachTemplate, r.urgent_flag>>

\* C6: for a monthly or quarterly row, response, attachTemplate and
\* urgent_flag are the same under every history: they are what analyse gives
\* under the empty history.
C6_HistoryNoInfluence ==
    (pc = "analysed" /\ row.period_type \in {"monthly", "quarterly"}) =>
        Outcome(row) = Outcome(analyse(Built, <<>>).row)

\* C6 as amended: response and attachTemplate of a monthly or quarterly row
\* are the same under every history, and so is urgent_flag when the dose is
\* not at or above the urgent level.
C6_HistoryNoInfluenceOnResponse ==
    (Called /\ row.period_type \in {"monthly", "quarterly"}) =>
        LET e == analyse(Built, <<>>).row IN
        /\ row.response = e.response
        /\ row.attachTemplate = e.attachTemplate
        /\ (pc = "analysed" /\ ~DoseAtLeast(row.urgentLevel)) =>
              row.urgent_flag = e.urgent_flag

\* C6 witness: a monthly row over its level, with an entry of its own keys and
\* a lower dose in the history
C6_Witness ==
    /\ pc = "analysed" /\ row.period_type = "monthly" /\ DoseAtLeast(row.level)
    /\ \E pn \in Entries : SameKeys(pn) /\ row.dose >= pn.dose

\* C7: a monthly or quarterly row gets the 'exceeded' sentence iff dose >=
\* level and the 'can be ignored' sentence otherwise, each naming its wearer,
\* period, level and badge, and attachTemplate is False afterwards.
C7_LocalReview ==
    (Called /\ row.period_type \in {"monthly", "quarterly"}) =>
        /\ row.response =
              Response(row.period_type \o
                          (IF DoseAtLeast(row.level) THEN " exceeded" ELSE " ignored"),
                       row.name, row.period, row.level, row.badge)
        /\ row.response.name = line.name /\ row.response.badge = line.badge
        /\ row.attachTemplate = "False"

\* C7 witness: a monthly row whose dose equals its level counts as exceeded
C7_Witness ==
    /\ pc = "analysed" /\ row.period_type = "monthly"
    /\ row.dose = row.level
    /\ row.response.kind = "monthly exceeded"

\* C8: a YTD row with dose < level gets the 'can be ignored' sentence and
\* attachTemplate = False under every history.
C8_YtdBelowLevelIgnored ==
    (Called /\ row.period_type = "YTD" /\ DoseBelow(row.level)) =>
        /\ row.response =
              Response("ytd ignored", row.name, NoPeriod, row.level, row.badge)
        /\ row.attachTemplate = "False"

\* C8 witness: neither an empty history nor one with a suppressing entry
\* changes it
C8_Witness ==
    /\ pc = "analysed" /\ row.period_type = "YTD" /\ DoseBelow(row.level)
    /\ Len(past_notifs) = 2
    /\ \E pn \in Entries : SameKeys(pn) /\ row.dose >= pn.dose
    /\ row.response.kind = "ytd ignored" /\ row.attachTemplate = "False"

IgnoredKinds == {"monthly ignored", "quarterly ignored", "ytd ignored"}

Matching(b, p) ==
    {i \in 1..Len(Spreadsheet.df.columns) :
        /\ check_substring_in_string(b, Spreadsheet.df.columns[i].outer)
        /\ check_substring_in_string(p, Spreadsheet.df.columns[i].inner)}

\* (i, j) is the first pair of the hierarchies hb, ht, badge before period,
\* that some column matches
FirstMatchingPair(hb, ht, i, j) ==
    /\ Matching(hb[i], ht[j]) # {}
    /\ \A i2 \in 1..Len(hb), j2 \in 1..Len(ht) :
          (i2 < i \/ (i2 = i /\ j2 < j)) => Matching(hb[i2], ht[j2]) = {}

Min(S) == CHOOSE x \in S : \A y \in S : x <= y

\* the table has exactly one Urgent column for the outer label of column i
HasUrgent(i) ==
    Cardinality({u \in 1..Len(Spreadsheet.df.columns) :
                    /\ Spreadsheet.df.columns[u].outer = Spreadsheet.df.columns[i].outer
                    /\ Spreadsheet.df.columns[u].inner = <<"Urgent">>}) = 1

\* C10: when two or more columns match the first matching pair (and the
\* earliest of them holds a number and has its Urgent column), get_levels
\* succeeds and returns the cell of the earliest of them in table order.
C10_FirstMatchWins ==
    ret.op = "get_levels" =>
        LET hb == Badge_get_Excel_Hierarchy(ret.badge).hierarchy
            ht == Temporal_get_Excel_Hierarchy(ret.period_type).hierarchy
        IN \A i \in 1..Len(hb), j \in 1..Len(ht) :
              (/\ FirstMatchingPair(hb, ht, i, j)
               /\ Cardinality(Matching(hb[i], ht[j])) >= 2
               /\ Spreadsheet.row[Min(Matching(hb[i], ht[j]))] >= 0
               /\ HasUrgent(Min(Matching(hb[i], ht[j])))) =>
                  /\ ret.out.status = "ok"
                  /\ ret.out.level = Spreadsheet.row[Min(Matching(hb[i], ht[j]))]

\* the hierarchies get_levels was called with (empty when the mapper raises)
CalledBadgeHierarchy == Badge_get_Excel_Hierarchy(ret.badge).hierarchy

CalledPeriodHierarchy == Temporal_get_Excel_Hierarchy(ret.period_type).hierarchy

\* the cell of the row under the Urgent column of column c's outer label
UrgentCell(c) ==
    Spreadsheet.row[CHOOSE u \in 1..Len(Spreadsheet.df.columns) :
                       /\ Spreadsheet.df.columns[u].outer = Spreadsheet.df.columns[c].outer
                       /\ Spreadsheet.df.columns[u].inner = <<"Urgent">>]

\* the pairs (i, j) of the called hierarchies that some column matches
MatchedPairs ==
    {p \in (1..Len(CalledBadgeHierarchy)) \X (1..Len(CalledPeriodHierarchy)) :
        Matching(CalledBadgeHierarchy[p[1]], CalledPeriodHierarchy[p[2]]) # {}}

\* the first pair of P, badge before period
FirstOf(P) ==
    CHOOSE p \in P : \A q \in P : p[1] < q[1] \/ (p[1] = q[1] /\ p[2] <= q[2])

\* the columns matching the pair p of the called hierarchies
MatchingPair(p) == Matching(CalledBadgeHierarchy[p[1]], CalledPeriodHierarchy[p[2]])

\* C11: get_levels probes the pairs with the badge hierarchy as outer loop:
\* when exactly one column matches the first matching pair in that order, a
\* successful call returns that column's cell and the Urgent cell of its outer
\* label, whatever columns match later pairs and wherever they stand in the
\* table; and the call succeeds when that cell parses and the Urgent column
\* exists.
C11_BadgeOuterPeriodInner ==
    ret.op = "get_levels" =>
        LET matched == MatchedPairs IN
        matched # {} =>
            LET cols == MatchingPair(FirstOf(matched)) IN
            Cardinality(cols) = 1 =>
                LET c == Min(cols)
                IN /\ ret.out.status = "ok" =>
                         /\ ret.out.level = Spreadsheet.row[c]
                         /\ ret.out.urgentLevel = UrgentCell(c)
                   /\ (HasUrgent(c) /\ FloatOK(Spreadsheet.row[c])) =>
                         ret.out.status = "ok"

\* C11 witness: ('Whole Body (DDE)', 'Monthly') stands before ('Collar',
\* 'Wear Period') in the table, and the call for a monthly collar badge
\* returns the cell of the latter
C11_Witness ==
    /\ ret.op = "get_levels" /\ ret.badge = "collar" /\ ret.period_type = "monthly"
    /\ ret.out.status = "ok"
    /\ \E a, b \in 1..Len(Spreadsheet.df.columns) :
          /\ a < b
          /\ Spreadsheet.df.columns[a] = Col(WholeBodyDDE, <<"Monthly">>)
          /\ Spreadsheet.df.columns[b] = Col(<<"Collar">>, <<"Wear", " ", "Period">>)
          /\ Matching("collar", "WEAR PERIOD") = {b}
          /\ Matching("collar", "MONTHLY") = {}
          /\ ret.out.level = Spreadsheet.row[b]
          /\ ret.out.level # Spreadsheet.row[a]

NotFound == "Badge type and period type not found in spreadsheet!"

\* C12: get_levels raises 'Badge type and period type not found in
\* spreadsheet!' iff both hierarchies exist and no column matches any pair of
\* their cross-product; it returns no level then.
C12_NotFoundIffNoPairMatches ==
    ret.op = "get_levels" =>
        /\ ret.out.err = NotFound <=>
              /\ Badge_get_Excel_Hierarchy(ret.badge).ok
              /\ Temporal_get_Excel_Hierarchy(ret.period_type).ok
              /\ MatchedPairs = {}
        /\ ret.out.err = NotFound =>
              /\ ret.out.status = "raise"
              /\ ret.out.level = UNSET /\ ret.out.urgentLevel = UNSET

\* C12 witness: a column matches the badge under another period and a column
\* matches the period under another badge, and the yearly call for a collar
\* badge raises the error
C12_Witness ==
    /\ ret.op = "get_levels" /\ ret.badge = "collar" /\ ret.period_type = "YTD"
    /\ ret.out.err = NotFound
    /\ \E a, b \in 1..Len(Spreadsheet.df.columns) :
          /\ Spreadsheet.df.columns[a] = Col(<<"Collar">>, <<"Wear", " ", "Period">>)
          /\ Spreadsheet.df.columns[b] = Col(LensLDE, <<"Annual">>)

Missing == "Required investigation level(s) missing from spreadsheet!"

\* C13: when exactly one column matches the first matching pair (and its
\* Urgent column exists), get_levels returns that column's cell if the cell
\* is a number, and raises 'Required investigation level(s) missing from
\* spreadsheet!' without a level if the cell is blank or placeholder text.
C13_NonNumberRaisesMissing ==
    ret.op = "get_levels" =>
        LET matched == MatchedPairs IN
        matched # {} =>
            LET cols == MatchingPair(FirstOf(matched)) IN
            (Cardinality(cols) = 1 /\ HasUrgent(Min(cols))) =>
                LET c == Min(cols)
                IN IF Spreadsheet.row[c] >= 0
                   THEN ret.out.status = "ok" /\ ret.out.level = Spreadsheet.row[c]
                   ELSE /\ ret.out.status = "raise" /\ ret.out.err = Missing
                        /\ ret.out.level = UNSET

\* load_df has returned without raising
Loaded == pc \notin {"start", "load_df raised"}

\* the row of the loaded sheet under the subaccount's code
OwnRow == Spreadsheet.df.rows[subaccount_code]

\* C14: after a successful load_df, Spreadsheet.row is the subaccount's own
\* row unless some cell of that row contains DEFAULT, in which case it is the
\* account's row.
C14_RowSelected ==
    Loaded =>
        /\ subaccount_code \in DOMAIN Spreadsheet.df.rows
        /\ IF \E i \in 1..Len(OwnRow) : OwnRow[i] = DEFAULT
           THEN /\ account_code \in DOMAIN Spreadsheet.df.rows
                /\ Spreadsheet.row = Spreadsheet.df.rows[account_code]
           ELSE Spreadsheet.row = OwnRow

\* C14 witness: one cell of the subaccount's row, not the first, holds
\* DEFAULT, and the account's row, which differs from it, is selected
C14_Witness ==
    /\ pc = "loaded"
    /\ OwnRow[1] # DEFAULT /\ OwnRow[2] = DEFAULT
    /\ Spreadsheet.row = AccountRow
    /\ Spreadsheet.row # OwnRow

\* the period type the claim gives for a frequency code
PeriodTypeOf(freq) ==
    CASE freq = "1MO" -> "monthly"
      [] freq = "3MO" -> "quarterly"
      [] freq = "" -> "YTD"
      [] OTHER -> "none"

\* C15: get_temporal_data returns period_type monthly for '1MO', quarterly
\* for '3MO' and YTD for the empty frequency, and raises for every other
\* frequency; a Row is built only from one of the three frequencies and its
\* period_type is the one of its frequency, never empty.
C15_PeriodTypeOfFrequency ==
    /\ ret.op = "get_temporal_data" =>
          /\ line.freq \in {"1MO", ""} => ret.out.ok
          /\ ret.out.ok => ret.out.period_type = PeriodTypeOf(line.freq)
          /\ line.freq \notin {"1MO", "3MO", ""} => ~ret.out.ok
    /\ pc = "row built" =>
          /\ line.freq \in {"1MO", "3MO", ""}
          /\ row.period_type = PeriodTypeOf(line.freq)
          /\ row.period_type \in {"monthly", "quarterly", "YTD"}
    /\ (pc = "row raised" /\ line.freq \notin {"1MO", "3MO", ""}) => row = NoRow

\* C15 witness: the unknown frequency '6MO' raises and no Row is built
C15_Witness ==
    /\ pc = "row raised" /\ line.freq = "6MO" /\ line.badge = "collar"
    /\ row = NoRow

\* the quarters of the four (begin month, end month) pairs
QuarterOf(bm, em) ==
    CASE bm = 1 /\ em = 3 -> 1
      [] bm = 4 /\ em = 6 -> 2
      [] bm = 7 /\ em = 9 -> 3
      [] bm = 10 /\ em = 12 -> 4
      [] OTHER -> 0

\* C16: for the frequency '3MO', get_temporal_data names the first, second,
\* third or fourth quarter for the month pairs (1,3), (4,6), (7,9), (10,12)
\* and raises, with no period label, for every other pair; no quarterly Row
\* is built from another pair.
C16_QuarterMapping ==
    /\ (ret.op = "get_temporal_data" /\ line.freq = "3MO") =>
          IF QuarterOf(line.bDate.month, line.eDate.month) # 0
          THEN /\ ret.out.ok
               /\ ret.out.period_type = "quarterly"
               /\ ret.out.period =
                     Period("Q quarter", QuarterOf(line.bDate.month, line.eDate.month),
                            line.eDate.year)
          ELSE ~ret.out.ok /\ ret.out.period = NoPeriod
    /\ (pc = "row built" /\ line.freq = "3MO") =>
          /\ QuarterOf(line.bDate.month, line.eDate.month) # 0
          /\ row.period.n = QuarterOf(line.bDate.month, line.eDate.month)

\* C16 witness: the months (10, 12) give the fourth quarter
C16_Witness ==
    /\ ret.op = "get_temporal_data" /\ line.freq = "3MO"
    /\ line.bDate.month = 10 /\ line.eDate.month = 12
    /\ ret.out.ok /\ ret.out.period.n = 4

\* C17: the period label of a monthly row is the month name and the year of
\* the begin date, whatever the end date, and its response names that label;
\* the label of a YTD row is the year and the month of the begin date.
C17_PeriodLabels ==
    /\ (ret.op = "get_temporal_data" /\ line.freq = "1MO") =>
          /\ ret.out.period_type = "monthly"
          /\ ret.out.period = Period("%B %Y", line.bDate.month, line.bDate.year)
    /\ (ret.op = "get_temporal_data" /\ line.freq = "") =>
          /\ ret.out.period_type = "YTD"
          /\ ret.out.period = Period("%Y-%m", line.bDate.month, line.bDate.year)
    /\ (pc = "row built" /\ line.freq = "1MO") =>
          \A l \in Doses :
              gr_monthly([row EXCEPT !.level = l]) =
                  Response(IF line.dose >= l THEN "monthly exceeded"
                           ELSE "monthly ignored",
                           line.name, Period("%B %Y", line.bDate.month, line.bDate.year),
                           l, line.badge)

\* C17 witness: a monthly collar row beginning in March 2024 and ending in
\* another month of the next year is labelled March 2024 and exceeds a level
\* not above its dose
C17_Witness ==
    /\ pc = "row built" /\ line.freq = "1MO" /\ line.badge = "collar"
    /\ line.bDate.month = 3 /\ line.bDate.year = 2024
    /\ line.eDate.month = 4 /\ line.eDate.year = 2025
    /\ row.period = Period("%B %Y", 3, 2024)
    /\ gr_monthly([row EXCEPT !.level = 1]).kind = "monthly exceeded"

\* C18: for a whole-body badge b get_Excel_Hierarchy returns [b, 'DDE',
\* 'WHOLE BODY']; for an extremity badge ['EXTREMITY'] and for a lens badge
\* ['LDE', 'LENS', 'EYES'], neither containing the badge label; for a badge of
\* no group get_Excel_Hierarchy and get_dose_column both raise.
C18_BadgeHierarchy ==
    ret.op = "BadgeMapper" =>
        LET h == ret.get_Excel_Hierarchy
            hasOwn == \E i \in 1..Len(h.hierarchy) : h.hierarchy[i] = ret.badge
        IN CASE ret.badge \in {"collar", "other whole body", "chest", "waist"} ->
                   /\ h.ok /\ h.hierarchy = <<ret.badge, "DDE", "WHOLE BODY">>
                   /\ ret.get_dose_column.ok
             [] ret.badge \in {"left finger", "right finger"} ->
                   /\ h.ok /\ h.hierarchy = <<"EXTREMITY">> /\ ~hasOwn
                   /\ ret.get_dose_column.ok
             [] ret.badge = "lens" ->
                   /\ h.ok /\ h.hierarchy = <<"LDE", "LENS", "EYES">> /\ ~hasOwn
                   /\ ret.get_dose_column.ok
             [] OTHER ->
                   /\ ~h.ok /\ h.hierarchy = <<>>
                   /\ ~ret.get_dose_column.ok /\ ret.get_dose_column.col = ""

\* C18 witness: the hierarchy of a chest badge starts with its own label
C18_Witness ==
    /\ ret.op = "BadgeMapper" /\ ret.badge = "chest"
    /\ ret.get_Excel_Hierarchy.hierarchy = <<"chest", "DDE", "WHOLE BODY">>

\* C19: when the classification of the record fails (no Row could be built,
\* or analyse raised while parsing a threshold), none of response,
\* attachTemplate and urgent_flag has been set on the row.
C19_FailureLeavesRowUnclassified ==
    pc \in {"report raised", "analyse raised"} =>
        /\ row.response = NoResponse
        /\ row.attachTemplate = "unset"
        /\ row.urgent_flag = "unset"

\* the sheet load_df read lists the subaccount with a contact and a CC address
WellFormed(df) ==
    /\ subaccount_code \in DOMAIN df.rows
    /\ df.rows[subaccount_code][Len(df.columns) - 1] = EMAIL
    /\ df.rows[subaccount_code][Len(df.columns)] = EMAIL

\* C20: in run, when load_df raises no Row of the current report has been
\* built or analysed and none is afterwards; a Row is built only after a table
\* that lists the subaccount with a contact and a CC address was loaded.
C20_MalformedTableStopsRun ==
    /\ pc = "load_df raised" =>
          /\ line = NoLine /\ row = NoRow /\ past_notifs = <<>>
          /\ ~ENABLED Next
    /\ (line # NoLine \/ row # NoRow) =>
          /\ Loaded
          /\ WellFormed(Spreadsheet.df)

\* C20 witness: load_df has raised on a blank contact cell, which it had
\* already stored, and the run has no row
C20_Witness ==
    /\ pc = "load_df raised"
    /\ Spreadsheet.contact = NAN
    /\ line = NoLine /\ row = NoRow

\* the run has stopped on an error
RunRaised ==
    pc \in {"load_df raised", "report raised", "history raised", "analyse raised"}

\* Row.analyse has returned for the row
Analysed(r) ==
    /\ r.response # NoResponse
    /\ r.attachTemplate \in {"True", "False"}
    /\ r.urgent_flag \in {"True", "False"}

\* C21: an Email exists only once the loop of Report.analyse has passed every
\* row of the current report and Row.analyse has returned for each; when
\* load_df, the construction of a Row of the current report, the construction
\* of the history or a Row.analyse raises, the run has no Email and takes no
\* further step.
C21_EmailAfterEveryRowAnalysed ==
    /\ email # NoEmail =>
          /\ pc = "emailed"
          /\ rowIndex = Len(cur_report.rows)
          /\ \A i \in 1..Len(cur_report.rows) : Analysed(cur_report.rows[i])
    /\ RunRaised => email = NoEmail /\ ~ENABLED NextReport

\* C21 witness: the Email of a report of three rows, each analysed
C21_Witness ==
    /\ pc = "emailed"
    /\ email # NoEmail
    /\ Len(cur_report.rows) = 3
    /\ \A i \in 1..3 : Analysed(cur_report.rows[i])

\* C22: in the Email of a report whose rows were all analysed, the template
\* is attached exactly when some row has attachTemplate True, and the subject
\* starts with 'URGENT:' exactly when some row has urgent_flag True.
C22_TemplateAndUrgentIffSomeRow ==
    pc = "emailed" =>
        LET rows == cur_report.rows IN
        /\ (\E k \in 1..Len(email.attachments) : email.attachments[k] = "template")
              <=> (\E i \in 1..Len(rows) : rows[i].attachTemplate = "True")
        /\ Len(email.attachments) = 2
              <=> (\E i \in 1..Len(rows) : rows[i].attachTemplate = "True")
        /\ email.subject[1] = "URGENT:"
              <=> (\E i \in 1..Len(rows) : rows[i].urgent_flag = "True")
        /\ email.subject[1] \in {"URGENT:", ""}

\* C22 witness: an Email with the template and 'URGENT:' whose first row
\* asks for neither
C22_Witness ==
    /\ pc = "emailed"
    /\ Len(cur_report.rows) >= 2
    /\ cur_report.rows[1].attachTemplate = "False"
    /\ cur_report.rows[1].urgent_flag = "False"
    /\ email.attachments = <<"report", "template">>
    /\ email.subject[1] = "URGENT:"

\* the rows of the current report named name, in row order
RowsNamed(name) ==
    {i \in 1..Len(cur_report.rows) : cur_report.rows[i].name = name}

\* the n-th row named name
NthNamed(name, n) ==
    CHOOSE i \in RowsNamed(name) :
        Cardinality({j \in RowsNamed(name) : j < i}) = n - 1

\* the wearer a bullet is about
WearerOf(bullet) == bullet[1].response.name

\* C23: get_bullets makes one bullet per distinct wearer, in the order of the
\* wearers' first rows; a bullet holds the responses of the wearer's rows in
\* row order, the first with its own lead-in 'For wearer <name>', every later
\* one with 'Also for this wearer' instead; no response is dropped or repeated.
C23_BulletsGroupByWearer ==
    pc = "emailed" =>
        LET rows == cur_report.rows
            b == email.bullets
        IN /\ Len(b) = Cardinality({rows[i].name : i \in 1..Len(rows)})
           /\ \A k \in 1..Len(b) :
                 /\ b[k] # <<>>
                 /\ Len(b[k]) = Cardinality(RowsNamed(WearerOf(b[k])))
                 /\ \A n \in 1..Len(b[k]) :
                       /\ b[k][n].response =
                             rows[NthNamed(WearerOf(b[k]), n)].response
                       /\ b[k][n].lead = IF n = 1
                                         THEN <<"For wearer", WearerOf(b[k])>>
                                         ELSE <<"Also for this wearer">>
           /\ \A k, l \in 1..Len(b) :
                 k < l => NthNamed(WearerOf(b[k]), 1) < NthNamed(WearerOf(b[l]), 1)

\* C23 witness: rows of Smith, Jones and Smith give Smith's bullet of two
\* sentences before Jones's of one
C23_Witness ==
    /\ pc = "emailed"
    /\ Len(cur_report.rows) = 3
    /\ cur_report.rows[1].name = "Smith"
    /\ cur_report.rows[2].name = "Jones"
    /\ cur_report.rows[3].name = "Smith"
    /\ cur_report.rows[3].response # cur_report.rows[1].response
    /\ Len(email.bullets) = 2
    /\ Len(email.bullets[1]) = 2
    /\ email.bullets[1][2] = Sentence(<<"Also for this wearer">>, cur_report.rows[3].response)
    /\ WearerOf(email.bullets[2]) = "Jones"

\* a second Row.analyse of an analysed row returns with the outcome it has
Repeats(again, r) == ~again.raised /\ Outcome(again.row) = Outcome(r)

\* C24: once Row.analyse has returned for a row, a second Row.analyse of it
\* with the same thresholds and the same history returns too and leaves the
\* same response, attachTemplate and urgent_flag.
C24_AnalyseRepeatable ==
    pc = "analysed" => Repeats(analyse(row, past_notifs), row)

\* C24 witness: an analysed row that asks for the template and is urgent
C24_Witness ==
    /\ pc = "analysed"
    /\ row.attachTemplate = "True"
    /\ row.urgent_flag = "True"
    /\ Repeats(analyse(row, past_notifs), row)

\* r is q but for response, attachTemplate and urgent_flag
SameButOutcome(r, q) ==
    r = [q EXCEPT !.response = r.response,
                  !.attachTemplate = r.attachTemplate,
                  !.urgent_flag = r.urgent_flag]

\* C25: a call of Row.analyse in the loop of Report.analyse, whether it
\* returns or raises, changes nothing but response, attachTemplate and
\* urgent_flag of the row it is called on: the row's other fields, the other
\* rows of the report, the history and the loaded table stay as they were.
C25_AnalyseChangesOnlyOutcome ==
    [][(pc = "history" /\ pc' # "emailed") =>
          /\ Len(cur_report'.rows) = Len(cur_report.rows)
          /\ \A i \in 1..Len(cur_report.rows) :
                IF i = rowIndex + 1
                THEN SameButOutcome(cur_report'.rows[i], cur_report.rows[i])
                ELSE cur_report'.rows[i] = cur_report.rows[i]
          /\ cur_report'.df = cur_report.df
          /\ past_notifs' = past_notifs
          /\ Spreadsheet' = Spreadsheet
          /\ folder' = folder]_vars

\* C25 witness: the second of three rows has been analysed and asks for the
\* template, the third has not been, and there is a history
C25_Witness ==
    /\ pc = "history"
    /\ rowIndex = 2
    /\ Len(cur_report.rows) = 3
    /\ Outcome(cur_report.rows[2]) # Outcome(NoRow)
    /\ cur_report.rows[2].attachTemplate = "True"
    /\ Outcome(cur_report.rows[3]) = Outcome(NoRow)
    /\ past_notifs # <<>>

\* the history has been handed to Row
HistorySet == pc \in {"history", "analysed", "analyse raised"}

\* the files of the directory that are reports other than the chosen one and
\* were last modified strictly before it
EarlierReports ==
    {i \in 1..Len(folder.listing) :
        /\ folder.listing[i].name \in {"OVXRPT_a.pdf", "OVXRPT_b.pdf", "OVXRPT_x.pdf"}
        /\ \A j \in 1..Len(folder.listing) :
              folder.listing[j].name = folder.cur
                  => folder.listing[i].mtime + 1 <= folder.listing[j].mtime}

\* their rows, file by file in the order of the listing
EarlierRows ==
    LET upto[i \in 0..Len(folder.listing)] ==
            IF i = 0 THEN <<>>
            ELSE IF i \in EarlierReports
                 THEN upto[i - 1] \o RowsOf(PastReport(folder.listing[i].lines))
                 ELSE upto[i - 1]
    IN upto[Len(folder.listing)]

\* C26: the history is empty until the run sets it, which it does before the
\* row is analysed, and is the same from then on: the rows of the files of
\* the report's directory whose name contains 'OVXRPT_', is not the name of
\* the current report, and whose modification time is strictly earlier than
\* the current report's, and of no other file.
C26_HistoryFromEarlierReports ==
    /\ ~HistorySet => past_notifs = <<>>
    /\ HistorySet => past_notifs = EarlierRows
    /\ pc = "history" => Outcome(row) = Outcome(NoRow)

\* C26 witness: next to the current report stand an older report and a
\* report modified at the same time; the analysed row's history is the older
\* report's single row
C26_Witness ==
    /\ pc = "analysed"
    /\ Len(folder.listing) = 3
    /\ folder.listing[1] = OtherFile("a", 1)
    /\ folder.listing[2] = OtherFile("b", 2)
    /\ folder.listing[3].name = folder.cur
    /\ folder.listing[3].mtime = 2
    /\ Len(past_notifs) = 1
    /\ past_notifs[1].name = "Smith"

\* the columns get_levels can have taken the returned level from: those
\* matching the first matched pair whose cell is the level
Winning ==
    {c \in MatchingPair(FirstOf(MatchedPairs)) : Spreadsheet.row[c] = ret.out.level}

\* the Urgent columns filed under the outer label of column c
UrgentColumnsOf(c) ==
    {u \in 1..Len(Spreadsheet.df.columns) :
        Spreadsheet.df.columns[u] = Col(Spreadsheet.df.columns[c].outer, <<"Urgent">>)}

\* C27: when get_levels succeeds, the urgent level it returns is the cell of
\* the row in the column (outer, 'Urgent') whose outer label is that of the
\* column the level was taken from, as it stands, be it a number or not: no
\* error is raised for an Urgent cell that is not a number.
C27_UrgentOfWinningOuter ==
    (ret.op = "get_levels" /\ ret.out.status = "ok") =>
        /\ MatchedPairs # {}
        /\ Winning # {}
        /\ \A c \in Winning :
              /\ UrgentColumnsOf(c) # {}
              /\ \A u \in UrgentColumnsOf(c) : ret.out.urgentLevel = Spreadsheet.row[u]
        /\ FloatOK(ret.out.level)

\* C27 witness: the yearly call for a collar badge takes its level from
\* ('Whole Body (DDE)', 'Annual') in a table that also has the columns of
\* 'Collar', and returns the text of ('Whole Body (DDE)', 'Urgent')
C27_Witness ==
    /\ ret.op = "get_levels" /\ ret.badge = "collar" /\ ret.period_type = "YTD"
    /\ ret.out.status = "ok"
    /\ \E c, u, v \in 1..Len(Spreadsheet.df.columns) :
          /\ Spreadsheet.df.columns[c] = Col(WholeBodyDDE, <<"Annual">>)
          /\ Spreadsheet.df.columns[u] = Col(WholeBodyDDE, <<"Urgent">>)
          /\ Spreadsheet.df.columns[v] = Col(<<"Collar">>, <<"Urgent">>)
          /\ ret.out.level = Spreadsheet.row[c]
          /\ Spreadsheet.row[u] = TXT
          /\ ret.out.urgentLevel = TXT

\* the words of a label, in capitals: what is left without blanks and
\* parentheses
Words(label) ==
    LET w == SelectSeq(label, LAMBDA t : t \notin {" ", "(", ")"})
    IN [k \in 1..Len(w) |-> Upper(w[k])]

\* the words of the candidate stand in the label as whole words, one after
\* the other
HasWords(candidate, label) ==
    LET c == Words(Tokens(candidate))
        l == Words(label)
    IN \E i \in 0..(Len(l) - Len(c)) : \A k \in 1..Len(c) : l[i + k] = c[k]

\* the columns whose outer label has the words of b and whose inner label
\* has the words of p
WordMatching(b, p) ==
    {i \in 1..Len(Spreadsheet.df.columns) :
        /\ HasWords(b, Spreadsheet.df.columns[i].outer)
        /\ HasWords(p, Spreadsheet.df.columns[i].inner)}

\* C28: a column matches a pair of candidates when the badge candidate stands
\* in its outer label and the period candidate in its inner label, both as
\* whole words, whatever the case and with the parentheses removed: get_levels
\* finds no column exactly when no column matches a pair in this sense, and a
\* level it returns is the cell of a column that does. 'LENS' is not found in
\* 'Lenses'; 'DDE' is found in 'Whole Body (DDE)'.
C28_WholeWordMatch ==
    (/\ ret.op = "get_levels"
     /\ Badge_get_Excel_Hierarchy(ret.badge).ok
     /\ Temporal_get_Excel_Hierarchy(ret.period_type).ok) =>
        LET found == {p \in (1..Len(CalledBadgeHierarchy))
                              \X (1..Len(CalledPeriodHierarchy)) :
                         WordMatching(CalledBadgeHierarchy[p[1]],
                                      CalledPeriodHierarchy[p[2]]) # {}}
        IN /\ ret.out.err = NotFound <=> found = {}
           /\ ret.out.status = "ok" =>
                 \E p \in found :
                    \E c \in WordMatching(CalledBadgeHierarchy[p[1]],
                                          CalledPeriodHierarchy[p[2]]) :
                       ret.out.level = Spreadsheet.row[c]

\* C28 witness: the yearly call for a lens badge finds nothing in a table
\* whose level columns are ('Lenses', 'Annual') and ('Collar', 'Wear
\* Period'), though the first has 'LENS' in its outer label and the period in
\* its inner one
C28_Witness ==
    /\ ret.op = "get_levels" /\ ret.badge = "lens" /\ ret.period_type = "YTD"
    /\ ret.out.err = NotFound
    /\ \E a, b \in 1..Len(Spreadsheet.df.columns) :
          /\ Spreadsheet.df.columns[a] = Col(<<"Lenses">>, <<"Annual">>)
          /\ Spreadsheet.df.columns[b] = Col(<<"Collar">>, <<"Wear", " ", "Period">>)

\* the entries of the history at the positions S, in the order they have
SubHistory(S) ==
    LET at == SelectSeq([i \in 1..Len(past_notifs) |-> i], LAMBDA i : i \in S)
    IN [k \in 1..Len(at) |-> past_notifs[at[k]]]

\* C29: a row for which Row.analyse asks for the template under a history
\* asks for it under every history made of some of that history's entries:
\* taking entries away never suppresses a notification.
C29_SuppressionMonotone ==
    (Called /\ row.attachTemplate = "True") =>
        \A S \in SUBSET (1..Len(past_notifs)) :
            analyse(Built, SubHistory(S)).row.attachTemplate = "True"

\* C29 witness: the row asks for the template under a history of two
\* entries for its wearer and badge, neither of which notified of it
C29_Witness ==
    /\ pc = "analysed"
    /\ row.attachTemplate = "True"
    /\ Len(past_notifs) = 2
    /\ past_notifs[1] # past_notifs[2]
    /\ \A i \in 1..2 : past_notifs[i].name = row.name /\ past_notifs[i].badge = row.badge
    /\ analyse(Built, SubHistory({2})).row.attachTemplate = "True"

\* C30: when load_df raises, the class attributes df, row, contact and CC of
\* Spreadsheet all have the values they had before the call.
C30_LoadDfAllOrNothing ==
    pc = "load_df raised" =>
        Spreadsheet = [df |-> NoDf, row |-> <<>>, contact |-> UNSET, CC |-> UNSET]

====
